---- MODULE Spec2Model ----
(***************************************************************************)
(* Model of the Alpha ESS open-API client (src/alphaess/alphaess.py): the  *)
(* envelope transport (api_get, api_post), the endpoint operations built   *)
(* on it, the aggregation pass getdata, authenticate and the two battery   *)
(* setters.                                                                *)
(*                                                                         *)
(* Python values are tagged records so that None, strings, booleans, lists *)
(* and dicts can be told apart; a dict is a function from key strings to   *)
(* values, and "k in d" is k \in DOMAIN d.                                 *)
(***************************************************************************)
EXTENDS Integers, Sequences, FiniteSets

\* Longest device list the list endpoint returns in the model.
MaxUnits == 2

-----------------------------------------------------------------------------
\* Python / JSON values

None == [t |-> "none"]
JStr(s) == [t |-> "str", v |-> s]
JInt(n) == [t |-> "int", v |-> n]
JBool(b) == [t |-> "bool", v |-> b]
JList(l) == [t |-> "list", v |-> l]
JDict(d) == [t |-> "dict", v |-> d]

EmptyDict == [k \in {} |-> None]

\* d[key] = v on a dict
DictSet(d, key, v) == [k \in (DOMAIN d) \cup {key} |-> IF k = key THEN v ELSE d[k]]

\* Outcome of a call: a returned value or a raised exception, with the
\* diagnostics the call logged.
Ret(v, lg) == [kind |-> "return", val |-> v, exc |-> "", log |-> lg]
Raise(e, lg) == [kind |-> "raise", val |-> None, exc |-> e, log |-> lg]

BASEURL == "https://openapi.alphaess.com/api"

\* The local date time.strftime("%Y-%m-%d") yields, and the dates a caller passes.
Today == "2024-05-02"
QueryDates == {"2024-05-01", "2024-05-02"}

-----------------------------------------------------------------------------
\* What the server (or the network) answers to one request

\* connerr:   session.get / session.post raises (connection error, timeout)
\* badstatus: status >= 400, raise_for_status raises
\* status2xx: a non-error status other than 200 (e.g. 204)
\* badjson:   status 200 whose body response.json() cannot parse
\* ok:        status 200 with a JSON object as body
FailedHttp == {"connerr", "badstatus", "status2xx", "badjson"}

Envelope(hasMsg, msg, hasData, data) ==
    [k \in (IF hasMsg THEN {"msg"} ELSE {}) \cup (IF hasData THEN {"data"} ELSE {})
        |-> IF k = "msg" THEN msg ELSE data]

MsgValues == {JStr("Success"), JStr("Failed")}

Envelopes(payloads) ==
    {Envelope(hm, m, hd, d) : hm \in BOOLEAN, m \in MsgValues, hd \in BOOLEAN,
                              d \in payloads \cup {None}}

Responses(payloads) ==
    {[http |-> h, body |-> EmptyDict] : h \in FailedHttp}
        \cup {[http |-> "ok", body |-> e] : e \in Envelopes(payloads)}

\* A transport failure: anything but a parsed HTTP-200 body.
IsTransportFailure(resp) == resp.http \in FailedHttp

\* Device-list payloads: lists of at most MaxUnits entries; the entry at
\* position i either bears sysSn or does not.
SerialNames == <<"X1", "X2", "X3", "X4">>

Unit(i, hasSn) ==
    IF hasSn THEN [sysSn |-> JStr(SerialNames[i])] ELSE [minv |-> JStr(SerialNames[i])]

UnitLists ==
    {{[i \in 1..n |-> Unit(i, p[i])] : p \in [1..n -> BOOLEAN]} : n \in 0..MaxUnits}

ListPayloads == {JList(l) : l \in UNION UnitLists}

\* Payload of a per-device endpoint
DataPayloads == {JStr("d1")}

ListResponses == Responses(ListPayloads)
DataResponses == Responses(DataPayloads)

-----------------------------------------------------------------------------
\* Envelope transport

api_get(resp) ==
    IF resp.http = "connerr" THEN Raise("ClientConnectionError", <<"exception">>)
    ELSE IF resp.http = "badstatus" THEN Raise("ClientResponseError", <<"exception">>)
    ELSE IF resp.http = "status2xx"
        THEN Raise("UnboundLocalError", <<"unexpected_status", "exception">>)
    ELSE IF resp.http = "badjson" THEN Raise("ContentTypeError", <<"exception">>)
    ELSE LET json_response == resp.body IN
        IF ("msg" \in DOMAIN json_response /\ json_response["msg"] # JStr("Success"))
             \/ ("msg" \notin DOMAIN json_response)
        THEN Ret(None, <<"unexpected_json">>)
        ELSE IF "data" \notin DOMAIN json_response
            THEN Raise("KeyError", <<"exception">>)
        ELSE IF json_response["data"] # None
            THEN Ret(json_response["data"], <<>>)
        ELSE Ret(None, <<"unexpected_json">>)

api_post(resp) ==
    IF resp.http = "connerr" THEN Raise("ClientConnectionError", <<"exception">>)
    ELSE IF resp.http = "badstatus" THEN Raise("ClientResponseError", <<"exception">>)
    ELSE IF resp.http = "status2xx"
        THEN Raise("UnboundLocalError", <<"unexpected_status", "exception">>)
    ELSE IF resp.http = "badjson" THEN Raise("ContentTypeError", <<"exception">>)
    ELSE LET json_response == resp.body IN
        IF "msg" \in DOMAIN json_response /\ json_response["msg"] = JStr("Success")
        THEN IF "data" \notin DOMAIN json_response
            THEN Raise("KeyError", <<"exception">>)
            ELSE IF json_response["data"] = None
                THEN Ret(json_response["data"], <<>>)
                ELSE Ret(json_response["data"], <<"unexpected_json">>)
        ELSE Ret(None, <<>>)

\* The try/except of every endpoint operation: an exception of the transport
\* is logged and the operation falls off its end, returning None.
EndpointCall(out) ==
    IF out.kind = "raise" THEN Ret(None, out.log \o <<"call_error">>) ELSE out

-----------------------------------------------------------------------------
\* Endpoint operations (read)

\* The request an endpoint operation sends: path, sysSn and queryDate
\* ("" where the endpoint takes none).
Resource(ep, sysSn, queryDate) == [ep |-> ep, sysSn |-> sysSn, queryDate |-> queryDate]

\* getOneDayPowerBySn / getOneDateEnergyBySn query the local date whatever
\* date they are handed.
DateResource(ep, sysSn, queryDate) ==
    LET localdateencapsulated == Today IN
    IF queryDate = localdateencapsulated
    THEN Resource(ep, sysSn, queryDate)
    ELSE Resource(ep, sysSn, localdateencapsulated)

getESSList(resp) == EndpointCall(api_get(resp))
getLastPowerData(resp) == EndpointCall(api_get(resp))
getOneDayPowerBySn(resp) == EndpointCall(api_get(resp))
getSumDataForCustomer(resp) == EndpointCall(api_get(resp))
getOneDateEnergyBySn(resp) == EndpointCall(api_get(resp))
getChargeConfigInfo(resp) == EndpointCall(api_get(resp))
getDisChargeConfigInfo(resp) == EndpointCall(api_get(resp))

-----------------------------------------------------------------------------
\* Endpoint operations (write) and the battery setters

Post(path, json) == [path |-> path, json |-> json]

\* The values a caller passes as capacity threshold, switch and time windows
CapValues == {50, 90}
TimeValues == {"00:00", "06:00"}

UpdateArgs ==
    [sysSn : {"X1"}, cap : CapValues, flag : {0, 1},
     e1 : TimeValues, e2 : {"00:00"}, f1 : TimeValues, f2 : {"00:00"}]

SetterArgs ==
    [serial : {"X1"}, enabled : BOOLEAN, p1start : TimeValues, p1end : TimeValues,
     p2start : {"00:00"}, p2end : {"00:00"}, soc : CapValues]

ChargeSettings(a) ==
    [sysSn |-> JStr(a.sysSn), batHighCap |-> JInt(a.cap), gridCharge |-> JInt(a.flag),
     timeChae1 |-> JStr(a.e1), timeChae2 |-> JStr(a.e2),
     timeChaf1 |-> JStr(a.f1), timeChaf2 |-> JStr(a.f2)]

DisChargeSettings(a) ==
    [sysSn |-> JStr(a.sysSn), batUseCap |-> JInt(a.cap), ctrDis |-> JInt(a.flag),
     timeDise1 |-> JStr(a.e1), timeDise2 |-> JStr(a.e2),
     timeDisf1 |-> JStr(a.f1), timeDisf2 |-> JStr(a.f2)]

\* Outcome and submitted POSTs of the two update operations
updateChargeConfigInfo(a, resp) ==
    [out |-> EndpointCall(api_post(resp)),
     posts |-> <<Post(<<BASEURL, "/updateChargeConfigInfo">>, JDict(ChargeSettings(a)))>>]

updateDisChargeConfigInfo(a, resp) ==
    [out |-> EndpointCall(api_post(resp)),
     posts |-> <<Post(<<BASEURL, "/updateDisChargeConfigInfo">>, JDict(DisChargeSettings(a)))>>]

\* container[key] = value with a string key: defined on a dict; on a list it
\* raises TypeError (list indices must be integers).
PySetItem(container, key, value) ==
    IF container.t = "dict"
    THEN [ok |-> TRUE, val |-> JDict(DictSet(container.v, key, value))]
    ELSE [ok |-> FALSE, val |-> container]

\* A run of item assignments; the first one that raises ends it.
RECURSIVE AssignAll(_, _)
AssignAll(container, pairs) ==
    IF pairs = <<>> THEN [ok |-> TRUE, val |-> container]
    ELSE LET r == PySetItem(container, Head(pairs)[1], Head(pairs)[2]) IN
         IF r.ok THEN AssignAll(r.val, Tail(pairs)) ELSE r

\* int(enabled)
IntOfBool(b) == IF b THEN 1 ELSE 0

\* The try body of a setter: settings = [] followed by the seven assignments
\* and the POST; any exception is logged and re-raised.
SetterBody(path, pairs, resp) ==
    LET settings == AssignAll(JList(<<>>), pairs) IN
    IF ~settings.ok
    THEN [out |-> Raise("TypeError", <<"exception">>), posts |-> <<>>]
    ELSE LET r == api_post(resp) IN
         [out |-> IF r.kind = "raise" THEN Raise(r.exc, r.log \o <<"exception">>)
                  ELSE Ret(None, r.log),
          posts |-> <<Post(<<path>>, settings.val)>>]

setbatterycharge(a, resp) ==
    SetterBody("updateChargeConfigInfo",
               << <<"sysSn", JStr(a.serial)>>,
                  <<"gridCharge", JInt(IntOfBool(a.enabled))>>,
                  <<"timeChaf1", JStr(a.p1start)>>,
                  <<"timeChae1", JStr(a.p1end)>>,
                  <<"timeChaf2", JStr(a.p2start)>>,
                  <<"timeChae2", JStr(a.p2end)>>,
                  <<"batHighCap", JInt(a.soc)>> >>,
               resp)

setbatterydischarge(a, resp) ==
    SetterBody("updateDisChargeConfigInfo",
               << <<"sysSn", JStr(a.serial)>>,
                  <<"ctrDis", JInt(IntOfBool(a.enabled))>>,
                  <<"timeDisf1", JStr(a.p1start)>>,
                  <<"timeDise1", JStr(a.p1end)>>,
                  <<"timeDisf2", JStr(a.p2start)>>,
                  <<"timeDise2", JStr(a.p2end)>>,
                  <<"batUseCap", JInt(a.soc)>> >>,
               resp)

-----------------------------------------------------------------------------
\* authenticate

\* success = False; for unit in units: if "sysSn" in unit: success = True
RECURSIVE AnySysSn(_)
AnySysSn(list) ==
    IF list = <<>> THEN FALSE
    ELSE IF "sysSn" \in DOMAIN Head(list) THEN TRUE
    ELSE AnySysSn(Tail(list))

authenticate(resp) ==
    LET out == getESSList(resp) IN
    IF out.val = None
    THEN Raise("TypeError", out.log \o <<"exception">>)
    ELSE Ret(JBool(AnySysSn(out.val.v)), out.log)

-----------------------------------------------------------------------------
\* getdata: the per-device sequence of calls

\* The record fields getdata fills, in the order of its statements, and the
\* endpoint each comes from.
Fields == <<"SumData", "OneDateEnergy", "LastPower", "ChargeConfig",
            "DisChargeConfig", "OneDayPower">>

FieldEndpoint == <<"getSumDataForCustomer", "getOneDateEnergyBySn", "getLastPowerData",
                   "getChargeConfigInfo", "getDisChargeConfigInfo", "getOneDayPowerBySn">>

\* The request of the step-th per-device call
StepResource(step, serial) ==
    IF FieldEndpoint[step] \in {"getOneDateEnergyBySn", "getOneDayPowerBySn"}
    THEN DateResource(FieldEndpoint[step], serial, Today)
    ELSE Resource(FieldEndpoint[step], serial, "")

\* The result of the step-th per-device call
StepCall(step, resp) ==
    IF step = 1 THEN getSumDataForCustomer(resp)
    ELSE IF step = 2 THEN getOneDateEnergyBySn(resp)
    ELSE IF step = 3 THEN getLastPowerData(resp)
    ELSE IF step = 4 THEN getChargeConfigInfo(resp)
    ELSE IF step = 5 THEN getDisChargeConfigInfo(resp)
    ELSE getOneDayPowerBySn(resp)

\* AfterReturn with the power-curve call made whatever get_power says
AfterReturnAlwaysPower(step, gp) ==
    IF step < 6 THEN "sleep" ELSE "append"

\* Where getdata goes once the step-th call has returned: a sleep follows the
\* first four calls, and the fifth only under get_power; the unit is appended
\* after the last call.
AfterReturn(step, gp) ==
    IF step < 5 THEN "sleep"
    ELSE IF step = 5 /\ gp THEN "sleep"
    ELSE "append"

\* AssignField that leaves the field out when the sub-call returned None
AssignFieldSkipNone(unit, field, value) ==
    IF value = None THEN unit ELSE DictSet(unit, field, value)

\* unit[field] = value
AssignField(unit, field, value) == DictSet(unit, field, value)

\* Events of a pass: a request sent, a call returned with a value, a sleep.
CallEvent(resource) == <<"call", resource>>
RetEvent(value) == <<"ret", value>>
SleepEvent(delay) == <<"sleep", delay>>

-----------------------------------------------------------------------------
\* State

VARIABLES
    pc,            \* "idle", the position of the running getdata, or "done"
    op,            \* the operation called ("none" while idle)
    get_power,     \* getdata's arguments
    self_delay,
    units,         \* getdata: the device list as the list call returned it
    unit,          \* getdata: the loop variable, the entry being enriched (the
                   \* same object as units[idx]; the loop reads only entries
                   \* it has not enriched yet)
    idx,           \* getdata: position of the for loop in units
    step,          \* getdata: which per-device call is next or in flight
    alldata,       \* getdata: the records appended so far
    trace,         \* getdata: the calls, returns and sleeps of the pass
    subTransport,  \* getdata: the per-device call that has just returned hit a
                   \* transport failure (cleared when the pass moves on)
    lastResp,      \* the response to the list call / to a single operation
    args,          \* the arguments of an update operation or setter (else <<>>)
    posts,         \* the POST requests submitted by the operation
    result         \* outcome of the operation: value returned or exception raised

vars == <<pc, op, get_power, self_delay, units, unit, idx, step, alldata, trace,
          subTransport, lastResp, args, posts, result>>

NoResp == [http |-> "none", body |-> EmptyDict]
NoResult == [kind |-> "none", val |-> None, exc |-> "", log |-> <<>>]

\* The arguments a caller passes to getdata, get_power and self_delay (seconds):
\* the defaults, and a pass with the power curve and a delay
GetdataArgs == {<<FALSE, 0>>, <<TRUE, 2>>}

Init ==
    /\ pc = "idle"
    /\ op = "none"
    /\ get_power = FALSE
    /\ self_delay = 0
    /\ units = <<>>
    /\ unit = EmptyDict
    /\ idx = 0
    /\ step = 0
    /\ alldata = <<>>
    /\ trace = <<>>
    /\ subTransport = FALSE
    /\ lastResp = NoResp
    /\ args = <<>>
    /\ posts = <<>>
    /\ result = NoResult

\* getdata(get_power, self_delay) is called: alldata = [] and the list call
\* is issued.
getdata_begin ==
    /\ pc = "idle"
    /\ \E gpd \in GetdataArgs :
        LET gp == gpd[1]
            delay == gpd[2]
        IN
            /\ op' = "getdata"
            /\ pc' = "list"
            /\ get_power' = gp
            /\ self_delay' = delay
            /\ units' = <<>>
            /\ unit' = EmptyDict
            /\ idx' = 0
            /\ step' = 0
            /\ alldata' = <<>>
            /\ trace' = <<CallEvent(Resource("getEssList", "", ""))>>
            /\ subTransport' = FALSE
            /\ lastResp' = NoResp
            /\ args' = <<>>
            /\ posts' = <<>>
            /\ result' = NoResult

\* units = await self.getESSList(); iterating None raises TypeError, which
\* getdata logs and re-raises.
getdata_list ==
    /\ pc = "list"
    /\ \E resp \in ListResponses :
            /\ LET out == getESSList(resp) IN
                /\ trace' = Append(trace, RetEvent(out.val))
                /\ lastResp' = resp
                /\ IF out.val = None
                   THEN /\ result' = Raise("TypeError", <<"exception">>)
                        /\ pc' = "done"
                        /\ UNCHANGED <<units, idx>>
                   ELSE /\ units' = out.val.v
                        /\ idx' = 1
                        /\ pc' = "for"
                        /\ UNCHANGED result
            /\ UNCHANGED <<op, args, get_power, self_delay, unit, step, alldata, subTransport,
                         posts>>

\* for unit in units: if "sysSn" in unit: ...; return alldata after the loop
getdata_for ==
    /\ pc = "for"
    /\ IF idx > Len(units)
       THEN /\ result' = Ret(JList(alldata), <<>>)
            /\ pc' = "done"
            /\ UNCHANGED <<unit, idx, step>>
       ELSE IF "sysSn" \in DOMAIN units[idx]
       THEN /\ pc' = "call"
            /\ step' = 1
            /\ unit' = units[idx]
            /\ UNCHANGED <<idx, result>>
       ELSE /\ idx' = idx + 1
            /\ UNCHANGED <<pc, unit, step, result>>
    /\ UNCHANGED <<op, args, get_power, self_delay, units, alldata, trace, subTransport,
                   lastResp, posts>>

\* The step-th endpoint operation is called with serial = unit["sysSn"].
getdata_call ==
    /\ pc = "call"
    /\ trace' = Append(trace, CallEvent(StepResource(step, unit["sysSn"].v)))
    /\ pc' = "wait"
    /\ UNCHANGED <<op, args, get_power, self_delay, units, unit, idx, step, alldata, subTransport,
                   lastResp, posts, result>>

\* The call returns and its result is stored in the unit.
getdata_return ==
    /\ pc = "wait"
    /\ \E resp \in DataResponses :
            /\ LET out == StepCall(step, resp) IN
                /\ unit' = AssignField(unit, Fields[step], out.val)
                /\ trace' = Append(trace, RetEvent(out.val))
            /\ subTransport' = IsTransportFailure(resp)
            /\ pc' = AfterReturn(step, get_power)
            /\ UNCHANGED <<op, args, get_power, self_delay, units, idx, step, alldata, lastResp,
                         posts, result>>

\* await asyncio.sleep(self_delay)
getdata_sleep ==
    /\ pc = "sleep"
    /\ trace' = Append(trace, SleepEvent(self_delay))
    /\ step' = step + 1
    /\ pc' = "call"
    /\ subTransport' = FALSE
    /\ UNCHANGED <<op, args, get_power, self_delay, units, unit, idx, alldata, lastResp,
                   posts, result>>

\* alldata.append(unit)
getdata_append ==
    /\ pc = "append"
    /\ alldata' = Append(alldata, unit)
    /\ idx' = idx + 1
    /\ step' = 0
    /\ pc' = "for"
    /\ subTransport' = FALSE
    /\ UNCHANGED <<op, args, get_power, self_delay, units, unit, trace, lastResp, posts,
                   result>>

\* The operations that are one call run from start to end in one step, leaving
\* their request(s), the response they met and their outcome. The variables of
\* getdata are untouched.
getdata_vars == <<get_power, self_delay, units, unit, idx, step, alldata, subTransport>>

ReadOps == {"getLastPowerData", "getSumDataForCustomer", "getChargeConfigInfo",
            "getDisChargeConfigInfo"}
DateReadOps == {"getOneDateEnergyBySn", "getOneDayPowerBySn"}

ReadCall(name, resp) ==
    IF name = "getLastPowerData" THEN getLastPowerData(resp)
    ELSE IF name = "getSumDataForCustomer" THEN getSumDataForCustomer(resp)
    ELSE IF name = "getChargeConfigInfo" THEN getChargeConfigInfo(resp)
    ELSE IF name = "getDisChargeConfigInfo" THEN getDisChargeConfigInfo(resp)
    ELSE IF name = "getOneDateEnergyBySn" THEN getOneDateEnergyBySn(resp)
    ELSE getOneDayPowerBySn(resp)

\* await client.api_get(path)
call_api_get ==
    /\ pc = "idle"
    /\ \E resp \in ListResponses \cup DataResponses :
            /\ pc' = "done"
            /\ op' = "api_get"
            /\ trace' = <<CallEvent(Resource("path", "", ""))>>
            /\ args' = <<>>
            /\ lastResp' = resp
            /\ posts' = <<>>
            /\ result' = api_get(resp)
            /\ UNCHANGED getdata_vars

\* await client.api_post(path, json)
call_api_post ==
    /\ pc = "idle"
    /\ \E a \in UpdateArgs, resp \in DataResponses :
        LET json == JDict(ChargeSettings(a)) IN
            /\ pc' = "done"
            /\ op' = "api_post"
            /\ trace' = <<>>
            /\ args' = <<>>
            /\ lastResp' = resp
            /\ posts' = <<Post(<<"path">>, json)>>
            /\ result' = api_post(resp)
            /\ UNCHANGED getdata_vars

call_getESSList ==
    /\ pc = "idle"
    /\ \E resp \in ListResponses :
            /\ pc' = "done"
            /\ op' = "getESSList"
            /\ trace' = <<CallEvent(Resource("getEssList", "", ""))>>
            /\ args' = <<>>
            /\ lastResp' = resp
            /\ posts' = <<>>
            /\ result' = getESSList(resp)
            /\ UNCHANGED getdata_vars

\* The four read operations that take a sysSn only
call_read ==
    /\ pc = "idle"
    /\ \E name \in ReadOps, sysSn \in {"X1"}, resp \in DataResponses :
            /\ pc' = "done"
            /\ op' = name
            /\ trace' = <<CallEvent(Resource(name, sysSn, ""))>>
            /\ args' = <<>>
            /\ lastResp' = resp
            /\ posts' = <<>>
            /\ result' = ReadCall(name, resp)
            /\ UNCHANGED getdata_vars

\* The two read operations that take a sysSn and a queryDate
call_date_read ==
    /\ pc = "idle"
    /\ \E name \in DateReadOps, sysSn \in {"X1"}, queryDate \in QueryDates,
          resp \in DataResponses :
            /\ pc' = "done"
            /\ op' = name
            /\ trace' = <<CallEvent(DateResource(name, sysSn, queryDate))>>
            /\ args' = <<>>
            /\ lastResp' = resp
            /\ posts' = <<>>
            /\ result' = ReadCall(name, resp)
            /\ UNCHANGED getdata_vars

call_updateChargeConfigInfo ==
    /\ pc = "idle"
    /\ \E a \in UpdateArgs, resp \in DataResponses :
        LET r == updateChargeConfigInfo(a, resp) IN
            /\ pc' = "done"
            /\ op' = "updateChargeConfigInfo"
            /\ trace' = <<>>
            /\ args' = a
            /\ lastResp' = resp
            /\ posts' = r.posts
            /\ result' = r.out
            /\ UNCHANGED getdata_vars

call_updateDisChargeConfigInfo ==
    /\ pc = "idle"
    /\ \E a \in UpdateArgs, resp \in DataResponses :
        LET r == updateDisChargeConfigInfo(a, resp) IN
            /\ pc' = "done"
            /\ op' = "updateDisChargeConfigInfo"
            /\ trace' = <<>>
            /\ args' = a
            /\ lastResp' = resp
            /\ posts' = r.posts
            /\ result' = r.out
            /\ UNCHANGED getdata_vars

call_authenticate ==
    /\ pc = "idle"
    /\ \E resp \in ListResponses :
            /\ pc' = "done"
            /\ op' = "authenticate"
            /\ trace' = <<CallEvent(Resource("getEssList", "", ""))>>
            /\ args' = <<>>
            /\ lastResp' = resp
            /\ posts' = <<>>
            /\ result' = authenticate(resp)
            /\ UNCHANGED getdata_vars

\* lastResp is the response to the setter's POST, if it sent one.
call_setbatterycharge ==
    /\ pc = "idle"
    /\ \E a \in SetterArgs, resp \in DataResponses :
        LET r == setbatterycharge(a, resp) IN
            /\ pc' = "done"
            /\ op' = "setbatterycharge"
            /\ trace' = <<>>
            /\ args' = a
            /\ lastResp' = IF r.posts = <<>> THEN NoResp ELSE resp
            /\ posts' = r.posts
            /\ result' = r.out
            /\ UNCHANGED getdata_vars

call_setbatterydischarge ==
    /\ pc = "idle"
    /\ \E a \in SetterArgs, resp \in DataResponses :
        LET r == setbatterydischarge(a, resp) IN
            /\ pc' = "done"
            /\ op' = "setbatterydischarge"
            /\ trace' = <<>>
            /\ args' = a
            /\ lastResp' = IF r.posts = <<>> THEN NoResp ELSE resp
            /\ posts' = r.posts
            /\ result' = r.out
            /\ UNCHANGED getdata_vars

\* The caller has the outcome of its call; the client is ready for the next one.
\* Nothing of a finished call is kept: the client holds no state between calls
\* but its credentials and session.
next_call ==
    /\ pc = "done"
    /\ pc' = "idle"
    /\ op' = "none"
    /\ get_power' = FALSE
    /\ self_delay' = 0
    /\ units' = <<>>
    /\ unit' = EmptyDict
    /\ idx' = 0
    /\ step' = 0
    /\ alldata' = <<>>
    /\ trace' = <<>>
    /\ subTransport' = FALSE
    /\ lastResp' = NoResp
    /\ args' = <<>>
    /\ posts' = <<>>
    /\ result' = NoResult

Next ==
    \/ getdata_begin
    \/ getdata_list
    \/ getdata_for
    \/ getdata_call
    \/ getdata_return
    \/ getdata_sleep
    \/ getdata_append
    \/ call_api_get
    \/ call_api_post
    \/ call_getESSList
    \/ call_read
    \/ call_date_read
    \/ call_updateChargeConfigInfo
    \/ call_updateDisChargeConfigInfo
    \/ call_authenticate
    \/ call_setbatterycharge
    \/ call_setbatterydischarge
    \/ next_call

Spec == Init /\ [][Next]_vars

-----------------------------------------------------------------------------
\* Reading a pass back from its trace

IsPrefix(a, b) == Len(a) <= Len(b) /\ \A i \in 1..Len(a) : a[i] = b[i]

\* The requests of the trace, in the order they were sent
Calls(tr) ==
    LET cs == SelectSeq(tr, LAMBDA e : e[1] = "call") IN [i \in 1..Len(cs) |-> cs[i][2]]

ListRequest == Resource("getEssList", "", "")

\* The list call of the running pass has returned, with a list
ListObtained == op = "getdata" /\ Len(trace) >= 2 /\ trace[2][2] # None

\* The list it returned
PassList == trace[2][2].v

\* The entries of a list that bear sysSn, in list order
WithSysSn(list) == SelectSeq(list, LAMBDA u : "sysSn" \in DOMAIN u)

\* The requests one device is due, in the order of section 4.4
DeviceCalls(sn, gp) ==
    <<Resource("getSumDataForCustomer", sn, ""),
      Resource("getOneDateEnergyBySn", sn, Today),
      Resource("getLastPowerData", sn, ""),
      Resource("getChargeConfigInfo", sn, ""),
      Resource("getDisChargeConfigInfo", sn, "")>>
        \o (IF gp THEN <<Resource("getOneDayPowerBySn", sn, Today)>> ELSE <<>>)

RECURSIVE ExpectedCalls(_, _)
ExpectedCalls(devices, gp) ==
    IF devices = <<>> THEN <<>>
    ELSE DeviceCalls(Head(devices)["sysSn"].v, gp) \o ExpectedCalls(Tail(devices), gp)

\* The trace holds a call of endpoint ep for device sn that returned value
SubCallReturned(tr, ep, sn, value) ==
    \E i \in 1..(Len(tr) - 1) :
        /\ tr[i][1] = "call"
        /\ tr[i][2].ep = ep
        /\ tr[i][2].sysSn = sn
        /\ tr[i + 1] = RetEvent(value)

\* The fields every record carries and the endpoint each is queried from
QueriedFields ==
    {<<"SumData", "getSumDataForCustomer">>, <<"OneDateEnergy", "getOneDateEnergyBySn">>,
     <<"LastPower", "getLastPowerData">>, <<"ChargeConfig", "getChargeConfigInfo">>,
     <<"DisChargeConfig", "getDisChargeConfigInfo">>}

-----------------------------------------------------------------------------
\* Claims

\* C1: once getdata has obtained the device list, no sub-call result aborts the
\* pass: getdata never raises, and it returns exactly one record per list entry
\* bearing sysSn, in list order, each record keeping the entry's own items and
\* carrying every queried field set to what that sub-call returned, None
\* included.
C1_PartialResultsKept ==
    ListObtained =>
        /\ result.kind # "raise"
        /\ pc = "done" =>
            /\ result.kind = "return"
            /\ result.val.t = "list"
            /\ LET devices == WithSysSn(PassList)
                   records == result.val.v
               IN /\ Len(records) = Len(devices)
                  /\ \A i \in 1..Len(records) :
                        /\ \A k \in DOMAIN devices[i] :
                              k \in DOMAIN records[i] /\ records[i][k] = devices[i][k]
                        /\ \A f \in QueriedFields :
                              /\ f[1] \in DOMAIN records[i]
                              /\ SubCallReturned(trace, f[2], devices[i]["sysSn"].v,
                                                 records[i][f[1]])

\* C1 witness: a pass over two devices has returned two records; the summary
\* call of the second device returned None and its other fields are populated.
C1_Witness ==
    /\ op = "getdata"
    /\ pc = "done"
    /\ result.kind = "return"
    /\ Len(result.val.v) = 2
    /\ result.val.v[1]["SumData"] # None
    /\ result.val.v[2]["SumData"] = None
    /\ \A f \in QueriedFields : f[1] # "SumData" => result.val.v[2][f[1]] # None

\* C2 (as claimed): a transport failure of the list call is raised by getdata
\* as that same error, an absent list makes getdata fail too, and in both cases
\* no record is produced and no per-device call is issued.
C2_ListFailureRaisesSameError ==
    (op = "getdata" /\ pc = "done" /\ getESSList(lastResp).val = None) =>
        /\ result.kind = "raise"
        /\ IsTransportFailure(lastResp) => result.exc = api_get(lastResp).exc
        /\ alldata = <<>>
        /\ Calls(trace) = <<ListRequest>>

\* C3 (as claimed): a transport failure of any public endpoint operation
\* reaches the caller as an error, never as a returned None.
EndpointOps ==
    {"getESSList", "getLastPowerData", "getSumDataForCustomer", "getOneDateEnergyBySn",
     "getOneDayPowerBySn", "getChargeConfigInfo", "getDisChargeConfigInfo",
     "updateChargeConfigInfo", "updateDisChargeConfigInfo"}

C3_TransportFailureIsError ==
    (op \in EndpointOps /\ pc = "done" /\ IsTransportFailure(lastResp)) =>
        result.kind = "raise"

\* C4 (as claimed): on HTTP 200 api_get returns data exactly when msg is
\* "Success" and data is present and non-null, and returns None without raising
\* for every other envelope.
C4_GetEnvelopeRule ==
    (op = "api_get" /\ pc = "done" /\ lastResp.http = "ok") =>
        LET body == lastResp.body
            good == /\ "msg" \in DOMAIN body
                    /\ body["msg"] = JStr("Success")
                    /\ "data" \in DOMAIN body
                    /\ body["data"] # None
        IN /\ result.kind = "return"
           /\ result.val = IF good THEN body["data"] ELSE None

\* C5 (as claimed): on HTTP 200 api_post returns data (null or not) when msg is
\* "Success"; otherwise it returns None and logs the response as anomalous.
C5_PostEnvelopeRule ==
    (op = "api_post" /\ pc = "done" /\ lastResp.http = "ok") =>
        LET body == lastResp.body
            marked == "msg" \in DOMAIN body /\ body["msg"] = JStr("Success")
        IN /\ (marked /\ "data" \in DOMAIN body) =>
                (result.kind = "return" /\ result.val = body["data"])
           /\ ~marked =>
                /\ result.kind = "return"
                /\ result.val = None
                /\ \E i \in 1..Len(result.log) : result.log[i] = "unexpected_json"

\* C6 (as claimed): unless the list call hits a transport failure, authenticate
\* returns a boolean: true iff the list is there and has an entry bearing
\* sysSn, false for an empty list, a list with no such entry or an absent list.
C6_AuthenticateIsBoolean ==
    (op = "authenticate" /\ pc = "done" /\ lastResp.http = "ok") =>
        LET body == lastResp.body
            present == /\ "msg" \in DOMAIN body
                       /\ body["msg"] = JStr("Success")
                       /\ "data" \in DOMAIN body
                       /\ body["data"] # None
        IN /\ result.kind = "return"
           /\ result.val = JBool(present /\ WithSysSn(body["data"].v) # <<>>)

\* The flat payload a setter is to submit for its arguments
SetterPayload(name, a) ==
    IF name = "setbatterycharge"
    THEN [sysSn |-> JStr(a.serial), gridCharge |-> JInt(IF a.enabled THEN 1 ELSE 0),
          timeChaf1 |-> JStr(a.p1start), timeChae1 |-> JStr(a.p1end),
          timeChaf2 |-> JStr(a.p2start), timeChae2 |-> JStr(a.p2end),
          batHighCap |-> JInt(a.soc)]
    ELSE [sysSn |-> JStr(a.serial), ctrDis |-> JInt(IF a.enabled THEN 1 ELSE 0),
          timeDisf1 |-> JStr(a.p1start), timeDise1 |-> JStr(a.p1end),
          timeDisf2 |-> JStr(a.p2start), timeDise2 |-> JStr(a.p2end),
          batUseCap |-> JInt(a.soc)]

\* C7 (as claimed): every call of a setter submits exactly one POST to its
\* update endpoint, carrying the seven named fields mapped to its arguments.
C7_SetterPostsOnce ==
    (op \in {"setbatterycharge", "setbatterydischarge"} /\ pc = "done") =>
        /\ Len(posts) = 1
        /\ posts[1].path[Len(posts[1].path)]
              = (IF op = "setbatterycharge" THEN "updateChargeConfigInfo"
                 ELSE "updateDisChargeConfigInfo")
        /\ posts[1].json = JDict(SetterPayload(op, args))

\* C8: the calls of a pass are strictly sequential and in the fixed order: the
\* list call, then for each device in list order summary, daily energy, last
\* power, charge configuration, discharge configuration and, iff get_power, the
\* intraday power curve; every call returns before the next one is sent.
\* Stated of every moment a call is in flight and of the end of the pass: the
\* calls and returns so far alternate, and the calls are the expected ones, all
\* of them once the pass has returned.
C8_SequentialFixedOrder ==
    (op = "getdata" /\ pc \in {"list", "wait", "done"}) =>
        LET cr == SelectSeq(trace, LAMBDA e : e[1] # "sleep")
            calls == [i \in 1..((Len(cr) + 1) \div 2) |-> cr[2 * i - 1][2]]
        IN /\ \A i \in 1..Len(cr) : cr[i][1] = (IF i % 2 = 1 THEN "call" ELSE "ret")
           /\ (pc \in {"list", "wait"}) = (Len(cr) % 2 = 1)
           /\ calls[1] = ListRequest
           /\ ~ListObtained => Len(calls) = 1
           /\ ListObtained =>
                LET expected ==
                        <<ListRequest>> \o ExpectedCalls(WithSysSn(PassList), get_power)
                IN /\ IsPrefix(calls, expected)
                   /\ pc = "done" => calls = expected

\* C8 witness: a pass with get_power over two devices has returned, after the
\* list call and six calls per device.
C8_Witness ==
    /\ op = "getdata"
    /\ pc = "done"
    /\ result.kind = "return"
    /\ get_power
    /\ Len(result.val.v) = 2
    /\ Len(Calls(trace)) = 13

\* C9 (as claimed): between every two consecutive per-device calls of a pass,
\* those of one device and the last of one device and the first of the next,
\* there is a sleep of self_delay.
C9_DelayBetweenAllCalls ==
    op = "getdata" =>
        \A i, j \in 1..Len(trace) :
            (/\ i < j
             /\ trace[i][1] = "call" /\ trace[i][2] # ListRequest
             /\ trace[j][1] = "call"
             /\ \A m \in (i + 1)..(j - 1) : trace[m][1] # "call")
            => \E k \in (i + 1)..(j - 1) : trace[k] = SleepEvent(self_delay)

\* C10 (as claimed): a transport failure of a per-device call is fatal to the
\* pass: getdata raises and sends no further call.
C10_SubCallTransportFatal ==
    (op = "getdata" /\ subTransport) => (pc = "done" /\ result.kind = "raise")

====
